---- MODULE Spec2Model ----
(***************************************************************************)
(* Command-encoder ops of deno_webgpu (src/deno_webgpu/command_encoder.rs) *)
(* over the resource table and the graphics backend.                       *)
(*                                                                         *)
(* The ops of this file are translated from the source.  The resource      *)
(* table (get / take / add), the gfx_ok! and gfx_put! macros, the backend  *)
(* (wgpu_core) and the pass end op are not part of this file; they are     *)
(* modelled from spec.md sections 4.1, 4.3, 4.4, 6 and 7.                  *)
(***************************************************************************)
EXTENDS Integers, Sequences, FiniteSets, TLC

\* Bound of the model: the calls that register a handle or record a command
\* are disabled once this many of them have succeeded.
MaxWork == 3

\* Option::None of an optional handle, and "no handle" in a response.
None == 0 - 1

------------------------------------------------------------------------------
(* Resource entries: struct wrappers around one backend identifier.         *)

WebGpuCommandEncoder(id) == [kind |-> "CommandEncoder", id |-> id]
WebGpuCommandBuffer(id) == [kind |-> "CommandBuffer", id |-> id]
\* RenderPass::new(parent_id, desc) / ComputePass::new(parent_id, desc): the
\* pass value is bound to the backend id of its parent encoder.
WebGpuRenderPass(parent) == [kind |-> "RenderPass", id |-> parent]
WebGpuComputePass(parent) == [kind |-> "ComputePass", id |-> parent]

\* Resources made by other ops before any op of this file runs: a device, a
\* buffer, a texture, a texture view and a query set, at handles 1..5.
SessionResources ==
  << [kind |-> "Device", id |-> 1],
     [kind |-> "Buffer", id |-> 12],
     [kind |-> "Texture", id |-> 13],
     [kind |-> "TextureView", id |-> 14],
     [kind |-> "QuerySet", id |-> 15] >>

RidOf(kind) == CHOOSE h \in DOMAIN SessionResources : SessionResources[h].kind = kind

\* Handles a caller may pass as the first argument of an op: the never
\* registered handle 0, the buffer (a resource no op of this file takes as its
\* first argument) and every handle the ops can come to register.
Handles ==
  {0, RidOf("Buffer")} \cup (Len(SessionResources) + 1)..(Len(SessionResources) + MaxWork)
DeviceArgs == {RidOf("Device")} \cup Handles

\* Handles a caller may pass where a buffer, texture, view or query set is
\* expected: the right kind, a wrong kind, and an unregistered handle.
BufferArgs == {RidOf("Buffer"), RidOf("Texture"), 0}
TextureArgs == {RidOf("Texture"), RidOf("Buffer"), 0}
ViewArgs == {RidOf("TextureView"), RidOf("Texture"), 0}
QuerySetArgs == {RidOf("QuerySet"), RidOf("Buffer"), 0}

PassKinds == {"RenderPass", "ComputePass"}

------------------------------------------------------------------------------
VARIABLES
  resource_table,  \* [index: handle -> entry, next_rid]      (OpState.resource_table)
  encoders,        \* backend: encoder id -> [status, cmds, open, debug]
  last,            \* the last call: the class of its op, its first handle, its result, the handle returned
  taken,           \* history: handles removed by a successful take
  finished         \* history: encoder handles whose Finish returned a command buffer

vars == <<resource_table, encoders, last, taken, finished>>

------------------------------------------------------------------------------
(* Resource table (spec.md 4.1).                                            *)

\* get::<T>(rid): the entry, or InvalidHandle if absent or of another kind.
get(table, rid, kind) ==
  IF rid \in DOMAIN table.index /\ table.index[rid].kind = kind
  THEN [ok |-> TRUE, entry |-> table.index[rid]]
  ELSE [ok |-> FALSE, entry |-> [kind |-> "none", id |-> 0]]

\* take::<T>(rid): as get, and removes the entry.
take(table, rid, kind) ==
  LET g == get(table, rid, kind) IN
  [ok |-> g.ok, entry |-> g.entry,
   table |-> IF g.ok
             THEN [table EXCEPT !.index = [h \in DOMAIN table.index \ {rid} |-> table.index[h]]]
             ELSE table]

\* add(entry): registers the entry under the next handle of a growing counter.
add(table, entry) ==
  [rid |-> table.next_rid,
   table |-> [index |-> (table.next_rid :> entry) @@ table.index,
              next_rid |-> table.next_rid + 1]]

------------------------------------------------------------------------------
(* Graphics backend (spec.md 4.3, 4.4, 6, 7): encoders keyed by their own   *)
(* identifiers 1..Len(encoders).  Every operation returns the new backend   *)
(* state and "ok" or the error it reports.                                  *)

\* A recorded command: the backend call and the backend ids it was given.
Command(cmd, a, b) == [cmd |-> cmd, a |-> a, b |-> b]

\* device_create_command_encoder: a new encoder, in Recording, under a fresh id.
device_create_command_encoder(be) ==
  [encoders |-> Append(be, [status |-> "Recording", cmds |-> <<>>, open |-> 0, debug |-> 0]),
   err |-> "ok", id |-> Len(be) + 1]

\* A copy, marker, timestamp or resolve call: appended to the encoder's command
\* stream at once, unless the encoder is no longer recording or the backend
\* rejects the call's parameters (valid = FALSE).
record_command(be, id, cmd, valid) ==
  IF be[id].status # "Recording" THEN [encoders |-> be, err |-> "InvalidEncoderState"]
  ELSE IF ~valid THEN [encoders |-> be, err |-> "EncoderOperationFailed"]
  ELSE [encoders |-> [be EXCEPT ![id].cmds = Append(@, cmd)], err |-> "ok"]

command_encoder_push_debug_group(be, id) ==
  IF be[id].status = "Recording"
  THEN [encoders |-> [be EXCEPT ![id].cmds = Append(@, Command("push_debug_group", 0, 0)),
                                ![id].debug = @ + 1],
        err |-> "ok"]
  ELSE [encoders |-> be, err |-> "InvalidEncoderState"]

\* popDebugGroup: the backend reports a pop with no open group.
command_encoder_pop_debug_group(be, id) ==
  IF be[id].status # "Recording" THEN [encoders |-> be, err |-> "InvalidEncoderState"]
  ELSE IF be[id].debug = 0 THEN [encoders |-> be, err |-> "UnbalancedDebugGroup"]
  ELSE [encoders |-> [be EXCEPT ![id].cmds = Append(@, Command("pop_debug_group", 0, 0)),
                                ![id].debug = @ - 1],
        err |-> "ok"]

\* RenderPass::new / ComputePass::new: a pass recorder bound to the encoder;
\* the backend encoder tracks that a pass is open.  No command is issued.
pass_new(be, id) == [be EXCEPT ![id].open = @ + 1]

\* Pass end: the pass's commands are folded into the parent's command stream.
pass_end(be, id, kind) ==
  [encoders |-> [be EXCEPT ![id].cmds = Append(@, Command("run_pass", kind, 0)),
                           ![id].open = @ - 1],
   err |-> "ok"]

\* command_encoder_finish: converts the encoder into a command buffer (same
\* id, status Finished); finishing with a pass still open is an ordering
\* violation the backend reports.
command_encoder_finish(be, id) ==
  IF be[id].status # "Recording"
  THEN [encoders |-> be, err |-> "InvalidEncoderState", id |-> id]
  ELSE IF be[id].open # 0
  THEN [encoders |-> be, err |-> "EncoderOperationFailed", id |-> id]
  ELSE [encoders |-> [be EXCEPT ![id].status = "Finished"], err |-> "ok", id |-> id]

\* Handles registered and commands recorded so far by the ops of this file
\* (a folded pass is counted by its handle).
RECURSIVE Recorded(_)
Recorded(be) ==
  IF be = <<>> THEN 0
  ELSE Len(SelectSeq(Head(be).cmds, LAMBDA c : c.cmd # "run_pass")) + Recorded(Tail(be))
Work(table, be) == (table.next_rid - 1 - Len(SessionResources)) + Recorded(be)

\* The bound of the model: a guard of every registration and every recording.
HasBudget == Work(resource_table, encoders) < MaxWork

------------------------------------------------------------------------------
(* Responses.                                                               *)

\* The last call: the class of its op, its first handle argument, its result
\* and the handle it returned.  The class tells which lookup the op makes of
\* its first handle.
OpClass(op) ==
  CASE op = "CreateCommandEncoder" -> "create"    \* get::<WebGpuDevice>
    [] op = "Finish" -> "finish"                  \* take::<WebGpuCommandEncoder>
    [] op \in {"EndRenderPass", "EndComputePass"} -> "end"   \* take of a pass
    [] op = "none" -> "none"
    [] OTHER -> "encoder"                         \* get::<WebGpuCommandEncoder>
Response(op, arg, res, rid) == [op |-> OpClass(op), arg |-> arg, res |-> res, rid |-> rid]

\* A table lookup failed (the `?` after get / take): the op returns the error
\* and nothing else happens.
InvalidHandle(op, arg) ==
  /\ last' = Response(op, arg, "InvalidHandle", None)
  /\ UNCHANGED <<resource_table, encoders, taken, finished>>

\* gfx_ok!: run the backend call and surface its error, if any.
gfx_ok(op, arg, r) ==
  /\ r.err = "ok" => HasBudget
  /\ encoders' = r.encoders
  /\ last' = Response(op, arg, r.err, None)
  /\ UNCHANGED <<resource_table, taken, finished>>

\* gfx_put!: run the backend call; on success register the wrapped result in
\* `table` (the table as the op left it) and return its handle.
gfx_put(op, arg, table, r, entry) ==
  /\ r.err = "ok" => HasBudget
  /\ encoders' = r.encoders
  /\ IF r.err = "ok"
     THEN LET a == add(table, entry) IN
          /\ resource_table' = a.table
          /\ last' = Response(op, arg, "ok", a.rid)
     ELSE /\ resource_table' = table
          /\ last' = Response(op, arg, r.err, None)

------------------------------------------------------------------------------
(* Ops of command_encoder.rs.                                               *)

\* Faulty variant, for comparison: the new entry wraps the device's identifier, not the encoder's.
create_wrapping_device_id(device_rid) ==
  LET device_resource == get(resource_table, device_rid, "Device") IN
  IF ~device_resource.ok THEN InvalidHandle("CreateCommandEncoder", device_rid)
  ELSE LET r == device_create_command_encoder(encoders) IN
       /\ gfx_put("CreateCommandEncoder", device_rid, resource_table, r,
                  WebGpuCommandEncoder(device_resource.entry.id))
       /\ UNCHANGED <<taken, finished>>

op_webgpu_create_command_encoder(device_rid) ==
  LET device_resource == get(resource_table, device_rid, "Device") IN
  IF ~device_resource.ok THEN InvalidHandle("CreateCommandEncoder", device_rid)
  ELSE LET r == device_create_command_encoder(encoders) IN
       /\ gfx_put("CreateCommandEncoder", device_rid, resource_table, r,
                  WebGpuCommandEncoder(r.id))
       /\ UNCHANGED <<taken, finished>>

\* One wire color attachment: the view and the optional resolve target.
GpuRenderPassColorAttachment(view, resolve_target) ==
  [view |-> view, resolve_target |-> resolve_target]

\* The loop over args.color_attachments: every view and every given resolve
\* target is looked up; the first failure aborts the call.
RECURSIVE ColorAttachments(_, _)
ColorAttachments(table, atts) ==
  IF atts = <<>> THEN [ok |-> TRUE, value |-> <<>>]
  ELSE LET texture_view_resource == get(table, Head(atts).view, "TextureView")
           resolve_target ==
             IF Head(atts).resolve_target = None
             THEN [ok |-> TRUE, entry |-> [kind |-> "none", id |-> None]]
             ELSE get(table, Head(atts).resolve_target, "TextureView")
           rest == ColorAttachments(table, Tail(atts))
       IN IF texture_view_resource.ok /\ resolve_target.ok /\ rest.ok
          THEN [ok |-> TRUE,
                value |-> <<[view |-> texture_view_resource.entry.id,
                             resolve_target |-> resolve_target.entry.id]>> \o rest.value]
          ELSE [ok |-> FALSE, value |-> <<>>]

DepthStencilAttachment(table, view) ==
  IF view = None THEN [ok |-> TRUE, value |-> None]
  ELSE LET texture_view_resource == get(table, view, "TextureView") IN
       [ok |-> texture_view_resource.ok, value |-> texture_view_resource.entry.id]

\* Faulty variant, for comparison: the pass is put into the encoder's command
\* stream when it is begun.
begin_render_pass_folding_at_begin(command_encoder_rid, color_attachments, depth_stencil_attachment) ==
  LET command_encoder_resource == get(resource_table, command_encoder_rid, "CommandEncoder") IN
  IF ~command_encoder_resource.ok THEN InvalidHandle("BeginRenderPass", command_encoder_rid)
  ELSE IF ~ColorAttachments(resource_table, color_attachments).ok
  THEN InvalidHandle("BeginRenderPass", command_encoder_rid)
  ELSE IF ~DepthStencilAttachment(resource_table, depth_stencil_attachment).ok
  THEN InvalidHandle("BeginRenderPass", command_encoder_rid)
  ELSE /\ HasBudget
       /\ encoders' = [pass_new(encoders, command_encoder_resource.entry.id)
                         EXCEPT ![command_encoder_resource.entry.id].cmds =
                                  Append(@, Command("run_pass", "RenderPass", 0))]
       /\ LET a == add(resource_table, WebGpuRenderPass(command_encoder_resource.entry.id)) IN
          /\ resource_table' = a.table
          /\ last' = Response("BeginRenderPass", command_encoder_rid, "ok", a.rid)
       /\ UNCHANGED <<taken, finished>>

op_webgpu_command_encoder_begin_render_pass(command_encoder_rid, color_attachments, depth_stencil_attachment) ==
  LET command_encoder_resource == get(resource_table, command_encoder_rid, "CommandEncoder") IN
  IF ~command_encoder_resource.ok THEN InvalidHandle("BeginRenderPass", command_encoder_rid)
  ELSE IF ~ColorAttachments(resource_table, color_attachments).ok
  THEN InvalidHandle("BeginRenderPass", command_encoder_rid)
  ELSE IF ~DepthStencilAttachment(resource_table, depth_stencil_attachment).ok
  THEN InvalidHandle("BeginRenderPass", command_encoder_rid)
  ELSE /\ HasBudget
       /\ encoders' = pass_new(encoders, command_encoder_resource.entry.id)
       /\ LET a == add(resource_table, WebGpuRenderPass(command_encoder_resource.entry.id)) IN
          /\ resource_table' = a.table
          /\ last' = Response("BeginRenderPass", command_encoder_rid, "ok", a.rid)
       /\ UNCHANGED <<taken, finished>>

\* Faulty variant, for comparison: a pass is refused while another pass of the
\* encoder is open.
begin_compute_pass_one_pass_at_a_time(command_encoder_rid) ==
  LET command_encoder_resource == get(resource_table, command_encoder_rid, "CommandEncoder") IN
  IF ~command_encoder_resource.ok THEN InvalidHandle("BeginComputePass", command_encoder_rid)
  ELSE IF encoders[command_encoder_resource.entry.id].open > 0
  THEN /\ last' = Response("BeginComputePass", command_encoder_rid, "EncoderOperationFailed", None)
       /\ UNCHANGED <<resource_table, encoders, taken, finished>>
  ELSE /\ HasBudget
       /\ encoders' = pass_new(encoders, command_encoder_resource.entry.id)
       /\ LET a == add(resource_table, WebGpuComputePass(command_encoder_resource.entry.id)) IN
          /\ resource_table' = a.table
          /\ last' = Response("BeginComputePass", command_encoder_rid, "ok", a.rid)
       /\ UNCHANGED <<taken, finished>>

op_webgpu_command_encoder_begin_compute_pass(command_encoder_rid) ==
  LET command_encoder_resource == get(resource_table, command_encoder_rid, "CommandEncoder") IN
  IF ~command_encoder_resource.ok THEN InvalidHandle("BeginComputePass", command_encoder_rid)
  ELSE /\ HasBudget
       /\ encoders' = pass_new(encoders, command_encoder_resource.entry.id)
       /\ LET a == add(resource_table, WebGpuComputePass(command_encoder_resource.entry.id)) IN
          /\ resource_table' = a.table
          /\ last' = Response("BeginComputePass", command_encoder_rid, "ok", a.rid)
       /\ UNCHANGED <<taken, finished>>

\* Faulty variant, for comparison: the source buffer is looked up with take.
copy_buffer_to_buffer_taking_source(command_encoder_rid, source, destination) ==
  LET command_encoder_resource == get(resource_table, command_encoder_rid, "CommandEncoder")
      source_buffer_resource == take(resource_table, source, "Buffer")
      destination_buffer_resource == get(source_buffer_resource.table, destination, "Buffer")
  IN IF ~command_encoder_resource.ok THEN InvalidHandle("CopyBufferToBuffer", command_encoder_rid)
     ELSE IF ~source_buffer_resource.ok THEN InvalidHandle("CopyBufferToBuffer", command_encoder_rid)
     ELSE IF ~destination_buffer_resource.ok
     THEN /\ last' = Response("CopyBufferToBuffer", command_encoder_rid, "InvalidHandle", None)
          /\ resource_table' = source_buffer_resource.table
          /\ UNCHANGED <<encoders, taken, finished>>
     ELSE \E valid \in BOOLEAN :
            LET r == record_command(encoders, command_encoder_resource.entry.id,
                                    Command("copy_buffer_to_buffer",
                                            source_buffer_resource.entry.id,
                                            destination_buffer_resource.entry.id), valid)
            IN /\ r.err = "ok" => HasBudget
               /\ encoders' = r.encoders
               /\ resource_table' = source_buffer_resource.table
               /\ last' = Response("CopyBufferToBuffer", command_encoder_rid, r.err, None)
               /\ UNCHANGED <<taken, finished>>

op_webgpu_command_encoder_copy_buffer_to_buffer(command_encoder_rid, source, destination) ==
  LET command_encoder_resource == get(resource_table, command_encoder_rid, "CommandEncoder")
      source_buffer_resource == get(resource_table, source, "Buffer")
      destination_buffer_resource == get(resource_table, destination, "Buffer")
  IN IF ~command_encoder_resource.ok THEN InvalidHandle("CopyBufferToBuffer", command_encoder_rid)
     ELSE IF ~source_buffer_resource.ok THEN InvalidHandle("CopyBufferToBuffer", command_encoder_rid)
     ELSE IF ~destination_buffer_resource.ok
     THEN InvalidHandle("CopyBufferToBuffer", command_encoder_rid)
     ELSE \E valid \in BOOLEAN :
            gfx_ok("CopyBufferToBuffer", command_encoder_rid,
                 record_command(encoders, command_encoder_resource.entry.id,
                                Command("copy_buffer_to_buffer", source_buffer_resource.entry.id,
                                        destination_buffer_resource.entry.id), valid))

\* Faulty variant, for comparison: the copy is issued to the backend before the destination texture is
\* looked up.
copy_buffer_to_texture_command_first(command_encoder_rid, source, destination) ==
  LET command_encoder_resource == get(resource_table, command_encoder_rid, "CommandEncoder")
      source_buffer_resource == get(resource_table, source, "Buffer")
      destination_texture_resource == get(resource_table, destination, "Texture")
  IN IF ~command_encoder_resource.ok THEN InvalidHandle("CopyBufferToTexture", command_encoder_rid)
     ELSE IF ~source_buffer_resource.ok THEN InvalidHandle("CopyBufferToTexture", command_encoder_rid)
     ELSE \E valid \in BOOLEAN :
            LET r == record_command(encoders, command_encoder_resource.entry.id,
                                    Command("copy_buffer_to_texture",
                                            source_buffer_resource.entry.id,
                                            destination_texture_resource.entry.id), valid)
            IN /\ r.err = "ok" => HasBudget
               /\ encoders' = r.encoders
               /\ last' = Response("CopyBufferToTexture", command_encoder_rid,
                                   IF destination_texture_resource.ok THEN r.err
                                   ELSE "InvalidHandle", None)
               /\ UNCHANGED <<resource_table, taken, finished>>

op_webgpu_command_encoder_copy_buffer_to_texture(command_encoder_rid, source, destination) ==
  LET command_encoder_resource == get(resource_table, command_encoder_rid, "CommandEncoder")
      source_buffer_resource == get(resource_table, source, "Buffer")
      destination_texture_resource == get(resource_table, destination, "Texture")
  IN IF ~command_encoder_resource.ok THEN InvalidHandle("CopyBufferToTexture", command_encoder_rid)
     ELSE IF ~source_buffer_resource.ok THEN InvalidHandle("CopyBufferToTexture", command_encoder_rid)
     ELSE IF ~destination_texture_resource.ok
     THEN InvalidHandle("CopyBufferToTexture", command_encoder_rid)
     ELSE \E valid \in BOOLEAN :
            gfx_ok("CopyBufferToTexture", command_encoder_rid,
                 record_command(encoders, command_encoder_resource.entry.id,
                                Command("copy_buffer_to_texture", source_buffer_resource.entry.id,
                                        destination_texture_resource.entry.id), valid))

\* Faulty variant, for comparison: the source texture is looked up with take.
copy_texture_to_buffer_taking_source(command_encoder_rid, source, destination) ==
  LET command_encoder_resource == get(resource_table, command_encoder_rid, "CommandEncoder")
      source_texture_resource == take(resource_table, source, "Texture")
      destination_buffer_resource == get(resource_table, destination, "Buffer")
  IN IF ~command_encoder_resource.ok THEN InvalidHandle("CopyTextureToBuffer", command_encoder_rid)
     ELSE IF ~source_texture_resource.ok THEN InvalidHandle("CopyTextureToBuffer", command_encoder_rid)
     ELSE IF ~destination_buffer_resource.ok
     THEN InvalidHandle("CopyTextureToBuffer", command_encoder_rid)
     ELSE \E valid \in BOOLEAN :
            LET r == record_command(encoders, command_encoder_resource.entry.id,
                                    Command("copy_texture_to_buffer",
                                            source_texture_resource.entry.id,
                                            destination_buffer_resource.entry.id), valid)
            IN /\ r.err = "ok" => HasBudget
               /\ encoders' = r.encoders
               /\ resource_table' = source_texture_resource.table
               /\ last' = Response("CopyTextureToBuffer", command_encoder_rid, r.err, None)
               /\ UNCHANGED <<taken, finished>>

op_webgpu_command_encoder_copy_texture_to_buffer(command_encoder_rid, source, destination) ==
  LET command_encoder_resource == get(resource_table, command_encoder_rid, "CommandEncoder")
      source_texture_resource == get(resource_table, source, "Texture")
      destination_buffer_resource == get(resource_table, destination, "Buffer")
  IN IF ~command_encoder_resource.ok THEN InvalidHandle("CopyTextureToBuffer", command_encoder_rid)
     ELSE IF ~source_texture_resource.ok THEN InvalidHandle("CopyTextureToBuffer", command_encoder_rid)
     ELSE IF ~destination_buffer_resource.ok
     THEN InvalidHandle("CopyTextureToBuffer", command_encoder_rid)
     ELSE \E valid \in BOOLEAN :
            gfx_ok("CopyTextureToBuffer", command_encoder_rid,
                 record_command(encoders, command_encoder_resource.entry.id,
                                Command("copy_texture_to_buffer", source_texture_resource.entry.id,
                                        destination_buffer_resource.entry.id), valid))

op_webgpu_command_encoder_copy_texture_to_texture(command_encoder_rid, source, destination) ==
  LET command_encoder_resource == get(resource_table, command_encoder_rid, "CommandEncoder")
      source_texture_resource == get(resource_table, source, "Texture")
      destination_texture_resource == get(resource_table, destination, "Texture")
  IN IF ~command_encoder_resource.ok THEN InvalidHandle("CopyTextureToTexture", command_encoder_rid)
     ELSE IF ~source_texture_resource.ok THEN InvalidHandle("CopyTextureToTexture", command_encoder_rid)
     ELSE IF ~destination_texture_resource.ok
     THEN InvalidHandle("CopyTextureToTexture", command_encoder_rid)
     ELSE \E valid \in BOOLEAN :
            gfx_ok("CopyTextureToTexture", command_encoder_rid,
                 record_command(encoders, command_encoder_resource.entry.id,
                                Command("copy_texture_to_texture", source_texture_resource.entry.id,
                                        destination_texture_resource.entry.id), valid))

op_webgpu_command_encoder_push_debug_group(command_encoder_rid) ==
  LET command_encoder_resource == get(resource_table, command_encoder_rid, "CommandEncoder") IN
  IF ~command_encoder_resource.ok THEN InvalidHandle("PushDebugGroup", command_encoder_rid)
  ELSE gfx_ok("PushDebugGroup", command_encoder_rid,
              command_encoder_push_debug_group(encoders, command_encoder_resource.entry.id))

\* Faulty variant, for comparison: the error the backend reports is dropped.
pop_debug_group_dropping_error(command_encoder_rid) ==
  LET command_encoder_resource == get(resource_table, command_encoder_rid, "CommandEncoder") IN
  IF ~command_encoder_resource.ok THEN InvalidHandle("PopDebugGroup", command_encoder_rid)
  ELSE gfx_ok("PopDebugGroup", command_encoder_rid,
              [command_encoder_pop_debug_group(encoders, command_encoder_resource.entry.id)
                 EXCEPT !.err = "ok"])

op_webgpu_command_encoder_pop_debug_group(command_encoder_rid) ==
  LET command_encoder_resource == get(resource_table, command_encoder_rid, "CommandEncoder") IN
  IF ~command_encoder_resource.ok THEN InvalidHandle("PopDebugGroup", command_encoder_rid)
  ELSE gfx_ok("PopDebugGroup", command_encoder_rid,
              command_encoder_pop_debug_group(encoders, command_encoder_resource.entry.id))

op_webgpu_command_encoder_insert_debug_marker(command_encoder_rid) ==
  LET command_encoder_resource == get(resource_table, command_encoder_rid, "CommandEncoder") IN
  IF ~command_encoder_resource.ok THEN InvalidHandle("InsertDebugMarker", command_encoder_rid)
  ELSE gfx_ok("InsertDebugMarker", command_encoder_rid,
              record_command(encoders, command_encoder_resource.entry.id,
                             Command("insert_debug_marker", 0, 0), TRUE))

\* Faulty variant, for comparison: the command is put at the head of the
\* encoder's stream, before the commands of earlier calls.
write_timestamp_at_head(command_encoder_rid, query_set) ==
  LET command_encoder_resource == get(resource_table, command_encoder_rid, "CommandEncoder")
      query_set_resource == get(resource_table, query_set, "QuerySet")
  IN IF ~command_encoder_resource.ok THEN InvalidHandle("WriteTimestamp", command_encoder_rid)
     ELSE IF ~query_set_resource.ok THEN InvalidHandle("WriteTimestamp", command_encoder_rid)
     ELSE LET id == command_encoder_resource.entry.id
              r == record_command(encoders, id, Command("write_timestamp", 0, 0), TRUE)
          IN gfx_ok("WriteTimestamp", command_encoder_rid,
                    IF r.err = "ok"
                    THEN [r EXCEPT !.encoders[id].cmds =
                            <<Command("write_timestamp", query_set_resource.entry.id, 0)>>
                              \o encoders[id].cmds]
                    ELSE r)

op_webgpu_command_encoder_write_timestamp(command_encoder_rid, query_set) ==
  LET command_encoder_resource == get(resource_table, command_encoder_rid, "CommandEncoder")
      query_set_resource == get(resource_table, query_set, "QuerySet")
  IN IF ~command_encoder_resource.ok THEN InvalidHandle("WriteTimestamp", command_encoder_rid)
     ELSE IF ~query_set_resource.ok THEN InvalidHandle("WriteTimestamp", command_encoder_rid)
     ELSE gfx_ok("WriteTimestamp", command_encoder_rid,
                 record_command(encoders, command_encoder_resource.entry.id,
                                Command("write_timestamp", query_set_resource.entry.id, 0), TRUE))

\* Faulty variant, for comparison: the destination is looked up as a texture.
resolve_query_set_texture_destination(command_encoder_rid, query_set, destination) ==
  LET command_encoder_resource == get(resource_table, command_encoder_rid, "CommandEncoder")
      query_set_resource == get(resource_table, query_set, "QuerySet")
      destination_resource == get(resource_table, destination, "Texture")
  IN IF ~command_encoder_resource.ok THEN InvalidHandle("ResolveQuerySet", command_encoder_rid)
     ELSE IF ~query_set_resource.ok THEN InvalidHandle("ResolveQuerySet", command_encoder_rid)
     ELSE IF ~destination_resource.ok THEN InvalidHandle("ResolveQuerySet", command_encoder_rid)
     ELSE gfx_ok("ResolveQuerySet", command_encoder_rid,
                 record_command(encoders, command_encoder_resource.entry.id,
                                Command("resolve_query_set", query_set_resource.entry.id,
                                        destination_resource.entry.id), TRUE))

op_webgpu_command_encoder_resolve_query_set(command_encoder_rid, query_set, destination) ==
  LET command_encoder_resource == get(resource_table, command_encoder_rid, "CommandEncoder")
      query_set_resource == get(resource_table, query_set, "QuerySet")
      destination_resource == get(resource_table, destination, "Buffer")
  IN IF ~command_encoder_resource.ok THEN InvalidHandle("ResolveQuerySet", command_encoder_rid)
     ELSE IF ~query_set_resource.ok THEN InvalidHandle("ResolveQuerySet", command_encoder_rid)
     ELSE IF ~destination_resource.ok THEN InvalidHandle("ResolveQuerySet", command_encoder_rid)
     ELSE gfx_ok("ResolveQuerySet", command_encoder_rid,
                 record_command(encoders, command_encoder_resource.entry.id,
                                Command("resolve_query_set", query_set_resource.entry.id,
                                        destination_resource.entry.id), TRUE))

\* Faulty variant, for comparison: Finish looks the encoder up with get, so the entry stays in the table.
finish_with_get(command_encoder_rid) ==
  LET command_encoder_resource == get(resource_table, command_encoder_rid, "CommandEncoder") IN
  IF ~command_encoder_resource.ok THEN InvalidHandle("Finish", command_encoder_rid)
  ELSE LET r == command_encoder_finish(encoders, command_encoder_resource.entry.id) IN
       /\ gfx_put("Finish", command_encoder_rid, resource_table, r, WebGpuCommandBuffer(r.id))
       /\ UNCHANGED taken
       /\ finished' = IF r.err = "ok" THEN finished \cup {command_encoder_rid} ELSE finished

\* Faulty variant, for comparison: the backend's error is dropped; the command buffer is registered
\* and its handle returned whatever the backend said.
finish_ignoring_backend_error(command_encoder_rid) ==
  LET command_encoder_resource == take(resource_table, command_encoder_rid, "CommandEncoder") IN
  IF ~command_encoder_resource.ok THEN InvalidHandle("Finish", command_encoder_rid)
  ELSE LET r == command_encoder_finish(encoders, command_encoder_resource.entry.id) IN
       /\ gfx_put("Finish", command_encoder_rid, command_encoder_resource.table,
                  [r EXCEPT !.err = "ok"], WebGpuCommandBuffer(r.id))
       /\ taken' = taken \cup {command_encoder_rid}
       /\ finished' = finished \cup {command_encoder_rid}

\* Faulty variant, for comparison: the entry is removed whatever its kind, and its kind checked after.
finish_remove_then_check(command_encoder_rid) ==
  IF command_encoder_rid \notin DOMAIN resource_table.index
  THEN InvalidHandle("Finish", command_encoder_rid)
  ELSE LET entry == resource_table.index[command_encoder_rid]
           table == take(resource_table, command_encoder_rid, entry.kind).table
       IN IF entry.kind # "CommandEncoder"
          THEN /\ resource_table' = table
               /\ last' = Response("Finish", command_encoder_rid, "InvalidHandle", None)
               /\ taken' = taken \cup {command_encoder_rid}
               /\ UNCHANGED <<encoders, finished>>
          ELSE LET r == command_encoder_finish(encoders, entry.id) IN
               /\ gfx_put("Finish", command_encoder_rid, table, r, WebGpuCommandBuffer(r.id))
               /\ taken' = taken \cup {command_encoder_rid}
               /\ finished' = IF r.err = "ok" THEN finished \cup {command_encoder_rid}
                              ELSE finished

\* Faulty variant, for comparison: Finish returns the handle it was given, not the one it registered.
finish_returning_encoder_rid(command_encoder_rid) ==
  LET command_encoder_resource == take(resource_table, command_encoder_rid, "CommandEncoder") IN
  IF ~command_encoder_resource.ok THEN InvalidHandle("Finish", command_encoder_rid)
  ELSE LET r == command_encoder_finish(encoders, command_encoder_resource.entry.id) IN
       /\ r.err = "ok" => HasBudget
       /\ encoders' = r.encoders
       /\ resource_table' =
            IF r.err = "ok"
            THEN add(command_encoder_resource.table, WebGpuCommandBuffer(r.id)).table
            ELSE command_encoder_resource.table
       /\ last' = Response("Finish", command_encoder_rid, r.err,
                           IF r.err = "ok" THEN command_encoder_rid ELSE None)
       /\ taken' = taken \cup {command_encoder_rid}
       /\ finished' = IF r.err = "ok" THEN finished \cup {command_encoder_rid} ELSE finished

\* Faulty variant, for comparison: the backend is called first and the entry
\* is taken out of the table only once the backend has accepted the finish.
finish_taking_after_backend(command_encoder_rid) ==
  LET command_encoder_resource == take(resource_table, command_encoder_rid, "CommandEncoder") IN
  IF ~command_encoder_resource.ok THEN InvalidHandle("Finish", command_encoder_rid)
  ELSE LET r == command_encoder_finish(encoders, command_encoder_resource.entry.id) IN
       /\ gfx_put("Finish", command_encoder_rid,
                  IF r.err = "ok" THEN command_encoder_resource.table ELSE resource_table,
                  r, WebGpuCommandBuffer(r.id))
       /\ taken' = IF r.err = "ok" THEN taken \cup {command_encoder_rid} ELSE taken
       /\ finished' = IF r.err = "ok" THEN finished \cup {command_encoder_rid} ELSE finished

op_webgpu_command_encoder_finish(command_encoder_rid) ==
  LET command_encoder_resource == take(resource_table, command_encoder_rid, "CommandEncoder") IN
  IF ~command_encoder_resource.ok THEN InvalidHandle("Finish", command_encoder_rid)
  ELSE LET r == command_encoder_finish(encoders, command_encoder_resource.entry.id) IN
       /\ gfx_put("Finish", command_encoder_rid, command_encoder_resource.table, r,
                  WebGpuCommandBuffer(r.id))
       /\ taken' = taken \cup {command_encoder_rid}
       /\ finished' = IF r.err = "ok" THEN finished \cup {command_encoder_rid} ELSE finished

------------------------------------------------------------------------------
(* Pass end (spec.md 4.4): a destructive take of the pass handle; the pass  *)
(* is folded into its parent encoder.                                       *)

pass_end_pass(op, kind, pass_rid) ==
  LET pass_resource == take(resource_table, pass_rid, kind) IN
  IF ~pass_resource.ok THEN InvalidHandle(op, pass_rid)
  ELSE LET r == pass_end(encoders, pass_resource.entry.id, kind) IN
       /\ resource_table' = pass_resource.table
       /\ encoders' = r.encoders
       /\ last' = Response(op, pass_rid, r.err, None)
       /\ taken' = taken \cup {pass_rid}
       /\ UNCHANGED finished

op_webgpu_render_pass_end_pass(render_pass_rid) ==
  pass_end_pass("EndRenderPass", "RenderPass", render_pass_rid)

op_webgpu_compute_pass_end_pass(compute_pass_rid) ==
  pass_end_pass("EndComputePass", "ComputePass", compute_pass_rid)

------------------------------------------------------------------------------
(* The calls a caller can make.                                             *)

\* Representative color attachment lists: empty, one or two attachments, with
\* and without a resolve target, with good, wrong-kind and unregistered handles.
ColorAttachmentLists ==
  LET V == RidOf("TextureView")
      T == RidOf("Texture")
      A(v, r) == GpuRenderPassColorAttachment(v, r)
  IN { <<>>, <<A(V, None)>>, <<A(V, V)>>, <<A(0, None)>>, <<A(T, None)>>,
       <<A(V, 0)>>, <<A(V, T)>>, <<A(V, None), A(V, V)>>, <<A(V, None), A(0, None)>> }

DepthStencilArgs == {None} \cup ViewArgs

\* Lookups run in argument order and the first failure returns: a handle is
\* read only once the lookups before it have succeeded.  Where it is not
\* read, one value stands for all of them.
After(ok, S) == IF ok THEN S ELSE {CHOOSE x \in S : TRUE}
ArgsAfter(e, S) == After(get(resource_table, e, "CommandEncoder").ok, S)
ArgsAfterLookup(e, h, kind, S) == After(get(resource_table, h, kind).ok, ArgsAfter(e, S))

CreateCommandEncoder ==
  \E d \in DeviceArgs : op_webgpu_create_command_encoder(d)
BeginRenderPass ==
  \E e \in Handles :
    \E c \in ArgsAfter(e, ColorAttachmentLists) :
      \E d \in After(ColorAttachments(resource_table, c).ok, ArgsAfter(e, DepthStencilArgs)) :
        op_webgpu_command_encoder_begin_render_pass(e, c, d)
BeginComputePass ==
  \E e \in Handles : op_webgpu_command_encoder_begin_compute_pass(e)
CopyBufferToBuffer ==
  \E e \in Handles :
    \E s \in ArgsAfter(e, BufferArgs) : \E d \in ArgsAfterLookup(e, s, "Buffer", BufferArgs) :
      op_webgpu_command_encoder_copy_buffer_to_buffer(e, s, d)
CopyBufferToTexture ==
  \E e \in Handles :
    \E s \in ArgsAfter(e, BufferArgs) : \E d \in ArgsAfterLookup(e, s, "Buffer", TextureArgs) :
      op_webgpu_command_encoder_copy_buffer_to_texture(e, s, d)
CopyTextureToBuffer ==
  \E e \in Handles :
    \E s \in ArgsAfter(e, TextureArgs) : \E d \in ArgsAfterLookup(e, s, "Texture", BufferArgs) :
      op_webgpu_command_encoder_copy_texture_to_buffer(e, s, d)
CopyTextureToTexture ==
  \E e \in Handles :
    \E s \in ArgsAfter(e, TextureArgs) : \E d \in ArgsAfterLookup(e, s, "Texture", TextureArgs) :
      op_webgpu_command_encoder_copy_texture_to_texture(e, s, d)
PushDebugGroup ==
  \E e \in Handles : op_webgpu_command_encoder_push_debug_group(e)
PopDebugGroup ==
  \E e \in Handles : op_webgpu_command_encoder_pop_debug_group(e)
InsertDebugMarker ==
  \E e \in Handles : op_webgpu_command_encoder_insert_debug_marker(e)
WriteTimestamp ==
  \E e \in Handles : \E q \in ArgsAfter(e, QuerySetArgs) :
    op_webgpu_command_encoder_write_timestamp(e, q)
ResolveQuerySet ==
  \E e \in Handles :
    \E q \in ArgsAfter(e, QuerySetArgs) : \E d \in ArgsAfterLookup(e, q, "QuerySet", BufferArgs) :
      op_webgpu_command_encoder_resolve_query_set(e, q, d)
Finish == \E e \in Handles : op_webgpu_command_encoder_finish(e)
EndRenderPass == \E p \in Handles : op_webgpu_render_pass_end_pass(p)
EndComputePass == \E p \in Handles : op_webgpu_compute_pass_end_pass(p)

Init ==
  /\ resource_table = [index |-> SessionResources, next_rid |-> Len(SessionResources) + 1]
  /\ encoders = <<>>
  /\ last = Response("none", None, "none", None)
  /\ taken = {}
  /\ finished = {}

Next ==
  \/ CreateCommandEncoder
  \/ BeginRenderPass
  \/ BeginComputePass
  \/ CopyBufferToBuffer
  \/ CopyBufferToTexture
  \/ CopyTextureToBuffer
  \/ CopyTextureToTexture
  \/ PushDebugGroup
  \/ PopDebugGroup
  \/ InsertDebugMarker
  \/ WriteTimestamp
  \/ ResolveQuerySet
  \/ Finish
  \/ EndRenderPass
  \/ EndComputePass

Spec == Init /\ [][Next]_vars

------------------------------------------------------------------------------
(* Descriptor translation: the backend records built from the wire          *)
(* descriptors by begin_render_pass and the image copies.  Floating-point   *)
(* and integer fields are copied, never computed with; they range over      *)
(* 0..MaxValue.                                                             *)

MaxValue == 2
Values == 0..MaxValue

\* enum GpuLoadOp<T> { Load, Clear(T) }
GpuLoadOp_Load == [op |-> "load"]
GpuLoadOp_Clear(value) == [op |-> "clear", value |-> value]

\* impl From<GpuStoreOp> for wgpu_core::command::StoreOp
StoreOp_from(value) ==
  CASE value = "store" -> "Store"
    [] value = "discard" -> "Discard"

PassChannel(load_op, store_op, clear_value, read_only) ==
  [load_op |-> load_op, store_op |-> store_op, clear_value |-> clear_value,
   read_only |-> read_only]

\* wgpu_types::Color, and its Default (every component zero).
Color(r, g, b, a) == [r |-> r, g |-> g, b |-> b, a |-> a]
Color_default == Color(0, 0, 0, 0)

\* Faulty variant, for comparison: a Clear color attachment gets the default
\* color, not the color it carries.
color_channel_dropping_clear_value(color_attachment) ==
  IF color_attachment.load_op.op = "load"
  THEN PassChannel("Load", StoreOp_from(color_attachment.store_op), Color_default, FALSE)
  ELSE PassChannel("Clear", StoreOp_from(color_attachment.store_op), Color_default, FALSE)

\* channel: match color_attachment.load_op { ... }
color_channel(color_attachment) ==
  IF color_attachment.load_op.op = "load"
  THEN PassChannel("Load", StoreOp_from(color_attachment.store_op), Color_default, FALSE)
  ELSE LET color == color_attachment.load_op.value IN
       PassChannel("Clear", StoreOp_from(color_attachment.store_op),
                   Color(color.r, color.g, color.b, color.a), FALSE)

\* depth: match attachment.depth_load_op { ... }
depth_channel(attachment) ==
  IF attachment.depth_load_op.op = "load"
  THEN PassChannel("Load", StoreOp_from(attachment.depth_store_op), 0,
                   attachment.depth_read_only)
  ELSE PassChannel("Clear", StoreOp_from(attachment.depth_store_op),
                   attachment.depth_load_op.value, attachment.depth_read_only)

\* stencil: match attachment.stencil_load_op { ... }
stencil_channel(attachment) ==
  IF attachment.stencil_load_op.op = "load"
  THEN PassChannel("Load", StoreOp_from(attachment.stencil_store_op), 0,
                   attachment.stencil_read_only)
  ELSE PassChannel("Clear", StoreOp_from(attachment.stencil_store_op),
                   attachment.stencil_load_op.value, attachment.stencil_read_only)

\* One iteration of the loop over the color attachments: the lookups of
\* ColorAttachments and the channel.
RenderPassColorAttachment(table, color_attachment) ==
  LET ids == ColorAttachments(table, <<color_attachment>>) IN
  IF ~ids.ok THEN [ok |-> FALSE]
  ELSE [ok |-> TRUE,
        value |-> [view |-> ids.value[1].view,
                   resolve_target |-> ids.value[1].resolve_target,
                   channel |-> color_channel(color_attachment)]]

\* if let Some(attachment) = args.depth_stencil_attachment { ... }
RenderPassDepthStencilAttachment(table, attachment) ==
  LET texture_view_resource == DepthStencilAttachment(table, attachment.view) IN
  IF ~texture_view_resource.ok THEN [ok |-> FALSE]
  ELSE [ok |-> TRUE,
        value |-> [view |-> texture_view_resource.value,
                   depth |-> depth_channel(attachment),
                   stencil |-> stencil_channel(attachment)]]

\* Option::unwrap_or and NonZeroU32::new over Option<u32>: None is Option::None.
unwrap_or(option, default) == IF option = None THEN default ELSE option
NonZeroU32_new(n) == IF n = 0 THEN None ELSE n

ImageCopyBuffer(buffer, offset, bytes_per_row, rows_per_image) ==
  [buffer |-> buffer,
   layout |-> [offset |-> offset, bytes_per_row |-> bytes_per_row,
               rows_per_image |-> rows_per_image]]

\* let source = wgpu_core::command::ImageCopyBuffer { ... } of
\* copy_buffer_to_texture, after the lookup of args.source.buffer.
copy_buffer_to_texture_source(table, source) ==
  LET source_buffer_resource == get(table, source.buffer, "Buffer") IN
  IF ~source_buffer_resource.ok THEN [ok |-> FALSE]
  ELSE [ok |-> TRUE,
        value |-> ImageCopyBuffer(source_buffer_resource.entry.id, source.offset,
                                  NonZeroU32_new(unwrap_or(source.bytes_per_row, 0)),
                                  NonZeroU32_new(unwrap_or(source.rows_per_image, 0)))]

\* Faulty variant, for comparison: bytes_per_row reaches the backend as the
\* number unwrap_or left, 0 included.
copy_texture_to_buffer_destination_zero_bytes_per_row(table, destination) ==
  LET destination_buffer_resource == get(table, destination.buffer, "Buffer") IN
  IF ~destination_buffer_resource.ok THEN [ok |-> FALSE]
  ELSE [ok |-> TRUE,
        value |-> ImageCopyBuffer(destination_buffer_resource.entry.id, destination.offset,
                                  unwrap_or(destination.bytes_per_row, 0),
                                  NonZeroU32_new(unwrap_or(destination.rows_per_image, 0)))]

\* let destination = wgpu_core::command::ImageCopyBuffer { ... } of
\* copy_texture_to_buffer, after the lookup of args.destination.buffer.
copy_texture_to_buffer_destination(table, destination) ==
  LET destination_buffer_resource == get(table, destination.buffer, "Buffer") IN
  IF ~destination_buffer_resource.ok THEN [ok |-> FALSE]
  ELSE [ok |-> TRUE,
        value |-> ImageCopyBuffer(destination_buffer_resource.entry.id, destination.offset,
                                  NonZeroU32_new(unwrap_or(destination.bytes_per_row, 0)),
                                  NonZeroU32_new(unwrap_or(destination.rows_per_image, 0)))]

\* impl From<GpuOrigin3D> for wgpu_types::Origin3d
Origin3d_from(origin) == [x |-> origin.x, y |-> origin.y, z |-> origin.z]

\* Faulty variant, for comparison: the record carries a value that depends on
\* how many entries the table holds.
ImageCopyTexture_counting_entries(table, image_copy_texture) ==
  LET texture_resource == get(table, image_copy_texture.texture, "Texture") IN
  IF ~texture_resource.ok THEN [ok |-> FALSE]
  ELSE [ok |-> TRUE,
        value |-> [texture |-> texture_resource.entry.id,
                   mip_level |-> image_copy_texture.mip_level
                                   + Cardinality(DOMAIN table.index) - Len(SessionResources),
                   origin |-> Origin3d_from(image_copy_texture.origin)]]

\* wgpu_core::command::ImageCopyTexture { texture, mip_level, origin, .. }
\* after the lookup of the texture (the aspect is converted outside this file).
ImageCopyTexture(table, image_copy_texture) ==
  LET texture_resource == get(table, image_copy_texture.texture, "Texture") IN
  IF ~texture_resource.ok THEN [ok |-> FALSE]
  ELSE [ok |-> TRUE,
        value |-> [texture |-> texture_resource.entry.id,
                   mip_level |-> image_copy_texture.mip_level,
                   origin |-> Origin3d_from(image_copy_texture.origin)]]

\* Wire descriptors a caller may send.
GpuStoreOps == {"store", "discard"}
ColorLoadOps ==
  {GpuLoadOp_Load} \cup
  {GpuLoadOp_Clear(Color(r, g, b, a)) : r \in Values, g \in Values,
                                         b \in {0, MaxValue}, a \in {0, MaxValue}}
ScalarLoadOps == {GpuLoadOp_Load} \cup {GpuLoadOp_Clear(v) : v \in Values}
WireColorAttachments ==
  {GpuRenderPassColorAttachment(v, r) @@ [load_op |-> l, store_op |-> s] :
     v \in ViewArgs, r \in {None, RidOf("TextureView")}, l \in ColorLoadOps, s \in GpuStoreOps}
WireDepthStencilAttachments ==
  {[view |-> v, depth_load_op |-> dl, depth_store_op |-> ds, depth_read_only |-> dr,
    stencil_load_op |-> sl, stencil_store_op |-> ss, stencil_read_only |-> sr] :
     v \in ViewArgs, dl \in ScalarLoadOps, ds \in GpuStoreOps, dr \in BOOLEAN,
     sl \in ScalarLoadOps, ss \in GpuStoreOps, sr \in BOOLEAN}
WireImageCopyBuffers ==
  {[buffer |-> b, offset |-> o, bytes_per_row |-> bpr, rows_per_image |-> rpi] :
     b \in BufferArgs, o \in Values, bpr \in {None} \cup Values, rpi \in {None} \cup Values}
WireImageCopyTextures ==
  {[texture |-> t, mip_level |-> m, origin |-> [x |-> x, y |-> y, z |-> z]] :
     t \in TextureArgs, m \in Values, x \in Values, y \in {0, MaxValue}, z \in {0, MaxValue}}

\* A translation step: the wire descriptor and the backend record built from it.
Translated(site, wire, record) == [op |-> site, arg |-> wire, res |-> record, rid |-> None]

TranslateColorAttachment ==
  \E w \in WireColorAttachments :
    /\ last' = Translated("color_attachment", w, RenderPassColorAttachment(resource_table, w))
    /\ UNCHANGED <<resource_table, encoders, taken, finished>>
TranslateDepthStencilAttachment ==
  \E w \in WireDepthStencilAttachments :
    /\ last' = Translated("depth_stencil_attachment", w,
                          RenderPassDepthStencilAttachment(resource_table, w))
    /\ UNCHANGED <<resource_table, encoders, taken, finished>>
TranslateCopyBufferToTextureSource ==
  \E w \in WireImageCopyBuffers :
    /\ last' = Translated("copy_buffer_to_texture_source", w,
                          copy_buffer_to_texture_source(resource_table, w))
    /\ UNCHANGED <<resource_table, encoders, taken, finished>>
TranslateCopyTextureToBufferDestination ==
  \E w \in WireImageCopyBuffers :
    /\ last' = Translated("copy_texture_to_buffer_destination", w,
                          copy_texture_to_buffer_destination(resource_table, w))
    /\ UNCHANGED <<resource_table, encoders, taken, finished>>
TranslateImageCopyTexture ==
  \E w \in WireImageCopyTextures :
    /\ last' = Translated("image_copy_texture", w, ImageCopyTexture(resource_table, w))
    /\ UNCHANGED <<resource_table, encoders, taken, finished>>

TranslateNext ==
  \/ TranslateColorAttachment
  \/ TranslateDepthStencilAttachment
  \/ TranslateCopyBufferToTextureSource
  \/ TranslateCopyTextureToBufferDestination
  \/ TranslateImageCopyTexture

\* The translations applied, one after another, to every wire descriptor.
TranslateSpec == Init /\ [][TranslateNext]_vars

\* The translation made at a site of the source, against a table.
TranslationSites ==
  {"color_attachment", "depth_stencil_attachment", "copy_buffer_to_texture_source",
   "copy_texture_to_buffer_destination", "image_copy_texture"}
TranslateAt(site, table, wire) ==
  CASE site = "color_attachment" -> RenderPassColorAttachment(table, wire)
    [] site = "depth_stencil_attachment" -> RenderPassDepthStencilAttachment(table, wire)
    [] site = "copy_buffer_to_texture_source" -> copy_buffer_to_texture_source(table, wire)
    [] site = "copy_texture_to_buffer_destination" ->
         copy_texture_to_buffer_destination(table, wire)
    [] site = "image_copy_texture" -> ImageCopyTexture(table, wire)

\* A few wire descriptors of each site: every handle argument, one choice of
\* the other fields.
SampleWires(site) ==
  CASE site = "color_attachment" ->
         {w \in WireColorAttachments :
            w.load_op = GpuLoadOp_Clear(Color(0, MaxValue, 0, MaxValue)) /\ w.store_op = "store"}
    [] site = "depth_stencil_attachment" ->
         {w \in WireDepthStencilAttachments :
            /\ w.depth_load_op = GpuLoadOp_Clear(MaxValue) /\ w.stencil_load_op = GpuLoadOp_Load
            /\ w.depth_store_op = "store" /\ w.stencil_store_op = "discard"
            /\ w.depth_read_only /\ ~w.stencil_read_only}
    [] site \in {"copy_buffer_to_texture_source", "copy_texture_to_buffer_destination"} ->
         {w \in WireImageCopyBuffers :
            w.offset = MaxValue /\ w.bytes_per_row = 0 /\ w.rows_per_image = MaxValue}
    [] site = "image_copy_texture" ->
         {w \in WireImageCopyTextures :
            w.mip_level = MaxValue /\ w.origin = [x |-> 0, y |-> MaxValue, z |-> 0]}

\* A translation made between the calls of Next, against the table as the
\* calls so far have left it.
TranslateAmongCalls ==
  \E site \in TranslationSites : \E w \in SampleWires(site) :
    /\ last' = Translated(site, w, TranslateAt(site, resource_table, w))
    /\ UNCHANGED <<resource_table, encoders, taken, finished>>

CallsAndTranslationsSpec == Init /\ [][Next \/ TranslateAmongCalls]_vars

------------------------------------------------------------------------------
(* Concurrent callers (spec.md 5): several callers run ops at once; each    *)
(* get / take / add on the table is one atomic step and so is each backend  *)
(* call, and the steps of different callers interleave.  `last` holds, per  *)
(* caller, the call in progress (pc, op, arg and what the call holds) or    *)
(* the response of the call that returned (pc = "idle").                    *)

MaxCallers == 2
Callers == 1..MaxCallers

Idle(op, arg, res, rid) == [pc |-> "idle", op |-> op, arg |-> arg, res |-> res, rid |-> rid]

\* The handles given out so far by the ops.
GivenHandles == (Len(SessionResources) + 1)..(resource_table.next_rid - 1)

\* The bound of the model, with the calls in progress counted in.
ConcurrentBudget ==
  Work(resource_table, encoders) + Cardinality({c \in Callers : last[c].pc # "idle"}) < MaxWork

\* create_command_encoder, up to the backend call: the lookup of the device.
CreateLookup(c) ==
  /\ last[c].pc = "idle"
  /\ ConcurrentBudget
  /\ LET device_resource == get(resource_table, RidOf("Device"), "Device") IN
     last' = [last EXCEPT ![c] = [pc |-> "backend", op |-> "create", arg |-> RidOf("Device"),
                                  id |-> device_resource.entry.id]]
  /\ UNCHANGED <<resource_table, encoders, taken, finished>>

\* Faulty variant, for comparison: finish looks the encoder up with get and
\* leaves its entry in the table.
FinishGet(c) ==
  \E command_encoder_rid \in GivenHandles :
    LET command_encoder_resource == get(resource_table, command_encoder_rid, "CommandEncoder") IN
    /\ last[c].pc = "idle"
    /\ IF ~command_encoder_resource.ok
       THEN last' = [last EXCEPT ![c] = Idle("finish", command_encoder_rid, "InvalidHandle", None)]
       ELSE /\ ConcurrentBudget
            /\ last' = [last EXCEPT ![c] = [pc |-> "backend", op |-> "finish",
                                            arg |-> command_encoder_rid,
                                            id |-> command_encoder_resource.entry.id]]
    /\ UNCHANGED <<resource_table, taken, encoders, finished>>

\* finish, up to the backend call: the take of the encoder.
FinishTake(c) ==
  \E command_encoder_rid \in GivenHandles :
    LET command_encoder_resource == take(resource_table, command_encoder_rid, "CommandEncoder") IN
    /\ last[c].pc = "idle"
    /\ IF ~command_encoder_resource.ok
       THEN /\ last' = [last EXCEPT ![c] = Idle("finish", command_encoder_rid, "InvalidHandle", None)]
            /\ UNCHANGED <<resource_table, taken>>
       ELSE /\ ConcurrentBudget
            /\ resource_table' = command_encoder_resource.table
            /\ taken' = taken \cup {command_encoder_rid}
            /\ last' = [last EXCEPT ![c] = [pc |-> "backend", op |-> "finish",
                                            arg |-> command_encoder_rid,
                                            id |-> command_encoder_resource.entry.id]]
    /\ UNCHANGED <<encoders, finished>>

\* gfx_put!, first half: the backend call of create or finish.
PutBackend(c) ==
  /\ last[c].pc = "backend"
  /\ LET r == IF last[c].op = "create" THEN device_create_command_encoder(encoders)
              ELSE command_encoder_finish(encoders, last[c].id)
     IN /\ encoders' = r.encoders
        /\ last' = [last EXCEPT ![c] =
                      IF r.err = "ok"
                      THEN [pc |-> "add", op |-> last[c].op, arg |-> last[c].arg,
                            entry |-> IF last[c].op = "create" THEN WebGpuCommandEncoder(r.id)
                                      ELSE WebGpuCommandBuffer(r.id)]
                      ELSE Idle(last[c].op, last[c].arg, r.err, None)]
  /\ UNCHANGED <<resource_table, taken, finished>>

\* gfx_put!, second half: the result is registered and its handle returned.
PutAdd(c) ==
  /\ last[c].pc = "add"
  /\ LET a == add(resource_table, last[c].entry) IN
     /\ resource_table' = a.table
     /\ last' = [last EXCEPT ![c] = Idle(last[c].op, last[c].arg, "ok", a.rid)]
  /\ finished' = IF last[c].op = "finish" THEN finished \cup {last[c].arg} ELSE finished
  /\ UNCHANGED <<encoders, taken>>

\* insert_debug_marker, up to the backend call: the get of the encoder.
MarkerGet(c) ==
  \E command_encoder_rid \in GivenHandles :
    LET command_encoder_resource == get(resource_table, command_encoder_rid, "CommandEncoder") IN
    /\ last[c].pc = "idle"
    /\ IF ~command_encoder_resource.ok
       THEN last' = [last EXCEPT ![c] = Idle("marker", command_encoder_rid, "InvalidHandle", None)]
       ELSE /\ ConcurrentBudget
            /\ last' = [last EXCEPT ![c] = [pc |-> "record", op |-> "marker",
                                            arg |-> command_encoder_rid,
                                            id |-> command_encoder_resource.entry.id]]
    /\ UNCHANGED <<resource_table, encoders, taken, finished>>

\* gfx_ok! of insert_debug_marker: the backend call.
MarkerBackend(c) ==
  /\ last[c].pc = "record"
  /\ LET r == record_command(encoders, last[c].id, Command("insert_debug_marker", 0, 0), TRUE) IN
     /\ encoders' = r.encoders
     /\ last' = [last EXCEPT ![c] = Idle("marker", last[c].arg, r.err, None)]
  /\ UNCHANGED <<resource_table, taken, finished>>

ConcurrentInit ==
  /\ resource_table = [index |-> SessionResources, next_rid |-> Len(SessionResources) + 1]
  /\ encoders = <<>>
  /\ last = [c \in Callers |-> Idle("none", None, "none", None)]
  /\ taken = {}
  /\ finished = {}

ConcurrentNext ==
  \E c \in Callers :
    \/ CreateLookup(c)
    \/ FinishTake(c)
    \/ PutBackend(c)
    \/ PutAdd(c)
    \/ MarkerGet(c)
    \/ MarkerBackend(c)

ConcurrentSpec == ConcurrentInit /\ [][ConcurrentNext]_vars

------------------------------------------------------------------------------
(* Vocabulary of the properties.                                            *)

Live(h) == h \in DOMAIN resource_table.index
KindOf(h) == resource_table.index[h].kind
IsEncoder(h) == Live(h) /\ KindOf(h) = "CommandEncoder"

\* A lookup of h as an entry of `kind` fails: h is absent or of another kind.
FailsLookup(h, kind) == ~Live(h) \/ KindOf(h) # kind

\* Some view or resolve target of the attachments fails its lookup.
AttachmentFails(c, d) ==
  \/ \E i \in DOMAIN c :
       \/ FailsLookup(c[i].view, "TextureView")
       \/ c[i].resolve_target # None /\ FailsLookup(c[i].resolve_target, "TextureView")
  \/ d # None /\ FailsLookup(d, "TextureView")

\* The step is a copy, query or begin-render-pass call on handle e in which a
\* buffer, texture, query-set or texture-view handle fails its lookup.
LookupFailingCall(e) ==
  \/ \E s \in BufferArgs : \E d \in After(~FailsLookup(s, "Buffer"), BufferArgs) :
       /\ FailsLookup(s, "Buffer") \/ FailsLookup(d, "Buffer")
       /\ op_webgpu_command_encoder_copy_buffer_to_buffer(e, s, d)
  \/ \E s \in BufferArgs : \E d \in After(~FailsLookup(s, "Buffer"), TextureArgs) :
       /\ FailsLookup(s, "Buffer") \/ FailsLookup(d, "Texture")
       /\ op_webgpu_command_encoder_copy_buffer_to_texture(e, s, d)
  \/ \E s \in TextureArgs : \E d \in After(~FailsLookup(s, "Texture"), BufferArgs) :
       /\ FailsLookup(s, "Texture") \/ FailsLookup(d, "Buffer")
       /\ op_webgpu_command_encoder_copy_texture_to_buffer(e, s, d)
  \/ \E s \in TextureArgs : \E d \in After(~FailsLookup(s, "Texture"), TextureArgs) :
       /\ FailsLookup(s, "Texture") \/ FailsLookup(d, "Texture")
       /\ op_webgpu_command_encoder_copy_texture_to_texture(e, s, d)
  \/ \E q \in QuerySetArgs :
       /\ FailsLookup(q, "QuerySet")
       /\ op_webgpu_command_encoder_write_timestamp(e, q)
  \/ \E q \in QuerySetArgs : \E d \in After(~FailsLookup(q, "QuerySet"), BufferArgs) :
       /\ FailsLookup(q, "QuerySet") \/ FailsLookup(d, "Buffer")
       /\ op_webgpu_command_encoder_resolve_query_set(e, q, d)
  \/ \E c \in ColorAttachmentLists :
       \E d \in After(~AttachmentFails(c, None), DepthStencilArgs) :
         /\ AttachmentFails(c, d)
         /\ op_webgpu_command_encoder_begin_render_pass(e, c, d)

\* The live pass handles opened from the encoder at handle e.
OpenPasses(e) ==
  {p \in DOMAIN resource_table.index :
     KindOf(p) \in PassKinds /\ resource_table.index[p].id = resource_table.index[e].id}

Kinds ==
  {"Device", "Buffer", "Texture", "TextureView", "QuerySet",
   "CommandEncoder", "CommandBuffer", "RenderPass", "ComputePass"}

\* The handles introduced by the ops of this model that are live.
LiveNew == {h \in DOMAIN resource_table.index : h > Len(SessionResources)}

------------------------------------------------------------------------------
\* C1: once Finish(E) has returned a command-buffer handle, every later
\* encoder operation that names E (the four copies, the three debug ops,
\* WriteTimestamp, ResolveQuerySet, both begin-pass ops, Finish) fails with
\* InvalidHandle.
C1_AfterFinishInvalidHandle ==
  [][last'.op \in {"encoder", "finish"} /\ last'.arg \in finished
       => last'.res = "InvalidHandle"]_vars

\* A non-destructive encoder op naming a finished encoder handle has just
\* failed with InvalidHandle.
C1_Witness ==
  /\ last.op = "encoder"
  /\ last.arg \in finished
  /\ last.res = "InvalidHandle"
  /\ \E c \in LiveNew : KindOf(c) = "CommandBuffer"

\* C2: after take(h) succeeds, every later get(h) and take(h) fails with
\* InvalidHandle, whatever kind is asked for; a second Finish on a finished
\* encoder handle fails with InvalidHandle and registers no command buffer.
C2_TakenStaysInvalid ==
  /\ [](\A h \in taken : \A k \in Kinds :
          ~get(resource_table, h, k).ok /\ ~take(resource_table, h, k).ok)
  /\ [][last'.op = "finish" /\ last'.arg \in finished
          => /\ last'.res = "InvalidHandle"
             /\ resource_table' = resource_table]_vars

\* Finish was called a second time on a finished (taken) encoder handle and
\* failed; the table holds the one command buffer of the first Finish.
C2_Witness ==
  /\ last.op = "finish"
  /\ last.arg \in finished \cap taken
  /\ last.res = "InvalidHandle"
  /\ Cardinality({c \in LiveNew : KindOf(c) = "CommandBuffer"}) = 1

\* C3: a copy, query or begin-render-pass call in which a buffer, texture,
\* texture-view or query-set handle fails its lookup fails with InvalidHandle
\* and changes neither the table (no pass handle) nor the backend (the
\* encoder stays in Recording with the same commands); a Finish that then
\* succeeds yields a command buffer holding exactly the commands the encoder
\* had recorded; and after such a failed call on an encoder without open
\* pass, Finish can succeed.
C3_FailedLookupChangesNothing ==
  /\ [][/\ last'.op = "encoder"
             => \/ /\ last'.res = "InvalidHandle"
                   /\ UNCHANGED <<resource_table, encoders>>
                \/ ~LookupFailingCall(last'.arg)
        /\ last'.op = "finish" /\ last'.res = "ok"
             => LET id == resource_table.index[last'.arg].id IN
                /\ encoders[id].status = "Recording"
                /\ encoders'[id] = [encoders[id] EXCEPT !.status = "Finished"]
                /\ resource_table'.index[last'.rid] = WebGpuCommandBuffer(id)]_vars
  /\ [](last.op = "encoder" /\ last.res = "InvalidHandle" /\ IsEncoder(last.arg)
          /\ OpenPasses(last.arg) = {} /\ HasBudget
        => /\ encoders[resource_table.index[last.arg].id].status = "Recording"
           /\ ENABLED (op_webgpu_command_encoder_finish(last.arg) /\ last'.res = "ok"))

\* A call on a live encoder that had recorded a command failed the lookup of
\* one of its other handles; the encoder is still in Recording.
C3_Witness ==
  /\ last.op = "encoder"
  /\ last.res = "InvalidHandle"
  /\ IsEncoder(last.arg)
  /\ LET enc == encoders[resource_table.index[last.arg].id] IN
     enc.status = "Recording" /\ Len(enc.cmds) = 1

\* C4: Finish(E) while a pass opened from E is still live fails with
\* EncoderOperationFailed; Finish(E) with no pass of E live succeeds and
\* returns the handle of a command buffer.
C4_FinishNeedsPassesEnded ==
  [][last'.op = "finish" /\ IsEncoder(last'.arg)
       => IF OpenPasses(last'.arg) # {}
          THEN last'.res = "EncoderOperationFailed" /\ last'.rid = None
          ELSE /\ last'.res = "ok"
               /\ last'.rid \in DOMAIN resource_table'.index
               /\ resource_table'.index[last'.rid].kind = "CommandBuffer"]_vars

\* Finish has just failed with EncoderOperationFailed while a pass of the
\* (only) encoder is live.
C4_Witness ==
  /\ last.op = "finish"
  /\ last.res = "EncoderOperationFailed"
  /\ Len(encoders) = 1
  /\ \E p \in LiveNew : KindOf(p) \in PassKinds /\ encoders[resource_table.index[p].id].open > 0

\* C5: a call that returns an error leaves every handle that was live before
\* it live and bound to the same entry, except the handle a failing Finish or
\* pass end was asked to consume.
C5_FailedCallKeepsOtherHandles ==
  [][last'.res # "ok"
       => \A h \in DOMAIN resource_table.index :
            \/ /\ h \in DOMAIN resource_table'.index
               /\ resource_table'.index[h] = resource_table.index[h]
            \/ h = last'.arg /\ last'.op \in {"finish", "end"}]_vars

\* A Finish the backend rejected consumed its encoder handle; the pass handle
\* beside it is still live.
C5_Witness ==
  /\ last.op = "finish"
  /\ last.res = "EncoderOperationFailed"
  /\ last.arg \in taken
  /\ \E p \in LiveNew : KindOf(p) \in PassKinds

\* C6: an op fails with InvalidHandle and registers no handle when a handle
\* it resolves is absent or of another kind: CreateCommandEncoder on a
\* non-Device handle, an encoder op on a handle that is not a CommandEncoder,
\* a copy, query or attachment naming a handle of the wrong kind.
C6_WrongKindInvalidHandle ==
  [][\/ /\ last'.res = "InvalidHandle"
        /\ resource_table'.next_rid = resource_table.next_rid
        /\ DOMAIN resource_table'.index \subseteq DOMAIN resource_table.index
     \/ ~ \/ last'.op = "create" /\ FailsLookup(last'.arg, "Device")
          \/ last'.op \in {"encoder", "finish"} /\ FailsLookup(last'.arg, "CommandEncoder")
          \/ last'.op = "encoder" /\ LookupFailingCall(last'.arg)]_vars

\* An encoder op was called on a live handle that names a command buffer and
\* failed with InvalidHandle.
C6_Witness ==
  /\ last.op = "encoder"
  /\ last.res = "InvalidHandle"
  /\ Live(last.arg)
  /\ KindOf(last.arg) = "CommandBuffer"

\* C7: Finish on a live handle whose entry is not a CommandEncoder fails with
\* InvalidHandle and removes nothing: the table is unchanged.
C7_FinishWrongKindRemovesNothing ==
  [][last'.op = "finish" /\ Live(last'.arg) /\ KindOf(last'.arg) # "CommandEncoder"
       => /\ last'.res = "InvalidHandle"
          /\ resource_table' = resource_table]_vars

\* Finish was called on a live command-buffer handle and failed; the handle
\* still names the command buffer.
C7_Witness ==
  /\ last.op = "finish"
  /\ last.res = "InvalidHandle"
  /\ Live(last.arg)
  /\ KindOf(last.arg) = "CommandBuffer"

\* C8: a successful Finish(E) removes the entry of E, registers one new entry
\* of kind CommandBuffer under the returned handle, and leaves every other
\* entry as it was.
C8_FinishTableDelta ==
  [][last'.op = "finish" /\ last'.res = "ok"
       => LET e == last'.arg
              c == last'.rid
          IN /\ IsEncoder(e)
             /\ c \notin DOMAIN resource_table.index
             /\ DOMAIN resource_table'.index = (DOMAIN resource_table.index \ {e}) \cup {c}
             /\ resource_table'.index[c].kind = "CommandBuffer"
             /\ \A h \in DOMAIN resource_table.index \ {e} :
                  resource_table'.index[h] = resource_table.index[h]]_vars

\* Finish has just succeeded while another encoder or a pass was live.
C8_Witness ==
  /\ last.op = "finish"
  /\ last.res = "ok"
  /\ \E h \in LiveNew : KindOf(h) \in PassKinds \cup {"CommandEncoder"}

\* C9: the handle an op returns is fresh: it is no handle that is live when
\* it is returned (the handle a Finish consumes apart), it resolves
\* afterwards to the entry the op registered (an encoder for
\* CreateCommandEncoder, a pass for the begin-pass ops, a command buffer for
\* Finish), and no other live entry is replaced.
C9_ReturnedHandleFresh ==
  [][last'.rid # None
       => LET r == last'.rid IN
          /\ r \notin DOMAIN resource_table.index \ (IF last'.op = "finish" THEN {last'.arg} ELSE {})
          /\ r \in DOMAIN resource_table'.index
          /\ resource_table'.index[r].kind \in
               (CASE last'.op = "create" -> {"CommandEncoder"}
                  [] last'.op = "finish" -> {"CommandBuffer"}
                  [] OTHER -> PassKinds)
          /\ \A h \in DOMAIN resource_table'.index \ {r} :
               h \in DOMAIN resource_table.index
                 /\ resource_table'.index[h] = resource_table.index[h]]_vars

\* An op has just returned a handle after other handles had been taken out of
\* the table; the new handle is none of them.
C9_Witness ==
  /\ last.rid # None
  /\ taken # {}
  /\ last.rid \notin taken
  /\ Live(last.rid)

\* C10, as claimed: no two live entries among encoders and passes wrap or are
\* bound to the same backend encoder identifier.
C10_NoAliasAmongEncodersAndPasses ==
  \A h1, h2 \in DOMAIN resource_table.index :
    /\ h1 # h2
    /\ KindOf(h1) \in PassKinds \cup {"CommandEncoder"}
    /\ KindOf(h2) \in PassKinds \cup {"CommandEncoder"}
    => resource_table.index[h1].id # resource_table.index[h2].id

\* C10, amended: no two live CommandEncoder entries wrap the same backend
\* encoder identifier (a pass is bound to the identifier of its parent, so a
\* pass and its encoder, and two passes of one encoder, do share it).
C10_NoAliasAmongEncoders ==
  \A h1, h2 \in DOMAIN resource_table.index :
    h1 # h2 /\ KindOf(h1) = "CommandEncoder" /\ KindOf(h2) = "CommandEncoder"
    => resource_table.index[h1].id # resource_table.index[h2].id

\* Two encoders are live, and a pass bound to one of them.
C10_Witness ==
  \E h1, h2, p \in LiveNew :
    /\ h1 # h2 /\ KindOf(h1) = "CommandEncoder" /\ KindOf(h2) = "CommandEncoder"
    /\ KindOf(p) \in PassKinds
    /\ resource_table.index[p].id = resource_table.index[h1].id

------------------------------------------------------------------------------
\* C11: a successful encoder operation other than Finish (a copy, a debug
\* op, a timestamp, a query resolve, a begin-pass) removes and rebinds no
\* handle: the encoder handle and every buffer, texture, view and query-set
\* handle are live afterwards and resolve to the entries they resolved to
\* before, so a later call can name them again.
C11_EncoderOpsKeepHandles ==
  [][last'.op = "encoder" /\ last'.res = "ok"
       => /\ IsEncoder(last'.arg)
          /\ \A h \in DOMAIN resource_table.index :
               /\ h \in DOMAIN resource_table'.index
               /\ resource_table'.index[h] = resource_table.index[h]]_vars

\* A second copy naming the same encoder, source and destination handles as
\* an earlier one has just succeeded.
C11_Witness ==
  /\ last.op = "encoder"
  /\ last.res = "ok"
  /\ IsEncoder(last.arg)
  /\ LET cmds == encoders[resource_table.index[last.arg].id].cmds IN
     /\ Len(cmds) = 2
     /\ cmds[1] = cmds[2]
     /\ cmds[1].cmd = "copy_texture_to_buffer"

\* The backend channel a wire load op, store op and read-only flag must give:
\* Clear(v) gives Clear with v, Load gives Load with the zero of the type;
\* Store gives Store and Discard gives Discard.
ExpectedChannel(load_op, store_op, zero, read_only) ==
  [load_op |-> IF load_op = GpuLoadOp_Load THEN "Load" ELSE "Clear",
   clear_value |-> IF load_op = GpuLoadOp_Load THEN zero ELSE load_op.value,
   store_op |-> IF store_op = "store" THEN "Store" ELSE "Discard",
   read_only |-> read_only]

\* C12: for the color, depth and stencil channels, a Clear(v) load op gives a
\* backend channel with load op Clear and clear value v, a Load load op gives
\* load op Load with the zero of the channel's type; the store op maps Store
\* to Store and Discard to Discard; read_only is false for color and the
\* descriptor's flag for depth and for stencil.
C12_LoadOpTranslation ==
  /\ last.op = "color_attachment" /\ last.res.ok
       => last.res.value.channel =
            ExpectedChannel(last.arg.load_op, last.arg.store_op, Color(0, 0, 0, 0), FALSE)
  /\ last.op = "depth_stencil_attachment" /\ last.res.ok
       => /\ last.res.value.depth =
               ExpectedChannel(last.arg.depth_load_op, last.arg.depth_store_op, 0,
                               last.arg.depth_read_only)
          /\ last.res.value.stencil =
               ExpectedChannel(last.arg.stencil_load_op, last.arg.stencil_store_op, 0,
                               last.arg.stencil_read_only)

\* A depth-stencil attachment with a nonzero depth clear, stored and
\* read-only, and a loaded, discarded stencil has been translated.
C12_Witness ==
  /\ last.op = "depth_stencil_attachment"
  /\ last.res.ok
  /\ last.arg.depth_load_op = GpuLoadOp_Clear(MaxValue)
  /\ last.arg.depth_read_only
  /\ last.arg.stencil_load_op = GpuLoadOp_Load
  /\ last.arg.stencil_store_op = "discard"
  /\ last.res.value.depth = PassChannel("Clear", "Store", MaxValue, TRUE)
  /\ last.res.value.stencil.load_op = "Load"

\* What a wire bytesPerRow / rowsPerImage must reach the backend as: omitted
\* and 0 as "unspecified" (None), any other n as n.
ExpectedLayoutField(wire) == IF wire = None \/ wire = 0 THEN None ELSE wire

\* C13: in CopyBufferToTexture and CopyTextureToBuffer alike, an omitted
\* bytesPerRow or rowsPerImage and a value of 0 reach the backend as
\* "unspecified", never as the number 0; any other value n reaches it as n;
\* each of the two fields depends on its own wire field only, and offset is
\* passed through unchanged.
C13_LayoutDefaulting ==
  last.op \in {"copy_buffer_to_texture_source", "copy_texture_to_buffer_destination"}
    /\ last.res.ok
  => LET layout == last.res.value.layout IN
     /\ layout.bytes_per_row = ExpectedLayoutField(last.arg.bytes_per_row)
     /\ layout.rows_per_image = ExpectedLayoutField(last.arg.rows_per_image)
     /\ layout.bytes_per_row # 0
     /\ layout.rows_per_image # 0
     /\ layout.offset = last.arg.offset

\* A texture-to-buffer destination with bytesPerRow 0, rowsPerImage given and
\* a nonzero offset has been translated: bytesPerRow is unspecified,
\* rowsPerImage and offset are as given.
C13_Witness ==
  /\ last.op = "copy_texture_to_buffer_destination"
  /\ last.res.ok
  /\ last.arg.bytes_per_row = 0
  /\ last.arg.rows_per_image = MaxValue
  /\ last.arg.offset = 1
  /\ last.res.value.layout = [offset |-> 1, bytes_per_row |-> None, rows_per_image |-> MaxValue]

\* The handles a wire descriptor names.
NamedHandles(site, wire) ==
  CASE site = "color_attachment" -> {wire.view, wire.resolve_target} \ {None}
    [] site = "depth_stencil_attachment" -> {wire.view}
    [] site \in {"copy_buffer_to_texture_source", "copy_texture_to_buffer_destination"} ->
         {wire.buffer}
    [] site = "image_copy_texture" -> {wire.texture}

\* The table cut down to the entries at the given handles.
OnlyEntries(table, handles) ==
  [index |-> [h \in handles \cap DOMAIN table.index |-> table.index[h]], next_rid |-> 0]

C15_AfterFinishInvalidEncoderState ==
  [][last'.op = "encoder" /\ last'.arg \in finished
       => last'.res = "InvalidEncoderState"]_vars

\* C15, amended: Finish removes the encoder's handle, so a copy, debug, query
\* or begin-pass operation on a finished encoder fails at the handle lookup
\* with InvalidHandle, before the backend is called, and changes nothing; no
\* operation reports InvalidEncoderState.
C15_AfterFinishLookupFails ==
  /\ [][last'.op = "encoder" /\ last'.arg \in finished
          => last'.res = "InvalidHandle" /\ UNCHANGED <<resource_table, encoders>>]_vars
  /\ [](last.res # "InvalidEncoderState")

\* An operation on the handle of an encoder the backend holds as Finished
\* has just failed with InvalidHandle.
C15_Witness ==
  /\ last.op = "encoder"
  /\ last.arg \in finished
  /\ last.res = "InvalidHandle"
  /\ \E i \in DOMAIN encoders : encoders[i].status = "Finished"

\* The backend identifier behind a session resource of a kind.
IdOf(kind) == SessionResources[RidOf(kind)].id

\* The step appends exactly the command c to the stream of the backend
\* encoder `id`, and changes nothing else of that stream.
Forwards(id, c) == encoders'[id].cmds = Append(encoders[id].cmds, c)

\* C16: a successful copy, debug, timestamp or resolve call on encoder E
\* appends one command, the command of that call, to the end of the stream
\* of E's backend encoder during the call, and touches no other encoder; a
\* failing call appends nothing; Finish(E) wraps the stream of E as it is.
\* So the command buffer of E holds the commands of the successful calls on
\* E in call order, none dropped, duplicated or reordered, none of another
\* encoder.
C16_PassThroughInOrder ==
  [][/\ last'.op = "encoder" /\ last'.res = "ok" /\ last'.rid = None
          => LET e == last'.arg
                 id == resource_table.index[e].id
                 B == RidOf("Buffer")
                 T == RidOf("Texture")
                 Q == RidOf("QuerySet")
             IN /\ DOMAIN encoders' = DOMAIN encoders
                /\ \A j \in DOMAIN encoders \ {id} : encoders'[j] = encoders[j]
                /\ Len(encoders'[id].cmds) = Len(encoders[id].cmds) + 1
                /\ SubSeq(encoders'[id].cmds, 1, Len(encoders[id].cmds)) = encoders[id].cmds
                /\ encoders'[id].status = "Recording"
                /\ op_webgpu_command_encoder_copy_buffer_to_buffer(e, B, B)
                     => Forwards(id, Command("copy_buffer_to_buffer", IdOf("Buffer"), IdOf("Buffer")))
                /\ op_webgpu_command_encoder_copy_buffer_to_texture(e, B, T)
                     => Forwards(id, Command("copy_buffer_to_texture", IdOf("Buffer"), IdOf("Texture")))
                /\ op_webgpu_command_encoder_copy_texture_to_buffer(e, T, B)
                     => Forwards(id, Command("copy_texture_to_buffer", IdOf("Texture"), IdOf("Buffer")))
                /\ op_webgpu_command_encoder_copy_texture_to_texture(e, T, T)
                     => Forwards(id, Command("copy_texture_to_texture", IdOf("Texture"), IdOf("Texture")))
                /\ op_webgpu_command_encoder_insert_debug_marker(e)
                     => Forwards(id, Command("insert_debug_marker", 0, 0))
                /\ op_webgpu_command_encoder_write_timestamp(e, Q)
                     => Forwards(id, Command("write_timestamp", IdOf("QuerySet"), 0))
                /\ op_webgpu_command_encoder_resolve_query_set(e, Q, B)
                     => Forwards(id, Command("resolve_query_set", IdOf("QuerySet"), IdOf("Buffer")))
     /\ last'.op = "encoder" /\ last'.res # "ok" => encoders' = encoders
     /\ last'.op = "finish" /\ last'.res = "ok"
          => LET id == resource_table.index[last'.arg].id IN
             /\ encoders'[id].cmds = encoders[id].cmds
             /\ \A j \in DOMAIN encoders \ {id} : encoders'[j] = encoders[j]
             /\ resource_table'.index[last'.rid].id = id]_vars

\* A timestamp has just been recorded after a texture-to-buffer copy on one
\* encoder: its stream holds the two commands in call order.
C16_Witness ==
  /\ last.op = "encoder"
  /\ last.res = "ok"
  /\ IsEncoder(last.arg)
  /\ encoders[resource_table.index[last.arg].id].cmds =
       << Command("copy_texture_to_buffer", IdOf("Texture"), IdOf("Buffer")),
          Command("write_timestamp", IdOf("QuerySet"), 0) >>

\* The folded passes in the command streams of the backend encoders.
FoldedPasses(be) == [id \in DOMAIN be |-> SelectSeq(be[id].cmds, LAMBDA c : c.cmd = "run_pass")]

\* C17: ending pass P of encoder E appends P's commands (one fold command of
\* P's kind) at the end of E's stream as it is at the end call, after
\* whatever E recorded since P was begun, and removes P from the table;
\* every later reference to P fails with InvalidHandle; beginning a pass puts
\* nothing into E's stream, and no step but a pass end adds a folded pass to
\* any stream.
C17_PassEndFoldsAtEnd ==
  [][/\ last'.op = "end" /\ last'.res = "ok"
          => LET p == last'.arg
                 id == resource_table.index[p].id
             IN /\ KindOf(p) \in PassKinds
                /\ encoders'[id].cmds = Append(encoders[id].cmds, Command("run_pass", KindOf(p), 0))
                /\ \A j \in DOMAIN encoders \ {id} : encoders'[j] = encoders[j]
                /\ DOMAIN resource_table'.index = DOMAIN resource_table.index \ {p}
     /\ last'.op = "end" /\ last'.arg \in taken
          => last'.res = "InvalidHandle" /\ UNCHANGED <<resource_table, encoders>>
     /\ last'.op = "encoder" /\ last'.rid # None
          => LET id == resource_table.index[last'.arg].id IN
             encoders'[id].cmds = encoders[id].cmds
     /\ last'.op # "end"
          => \/ encoders' = encoders
             \/ \A id \in DOMAIN encoders : FoldedPasses(encoders')[id] = FoldedPasses(encoders)[id]]_vars

\* A pass has just been ended on an encoder that also recorded a copy: the
\* fold command is the last of the stream, after the copy, and the pass
\* handle is gone.
C17_Witness ==
  /\ last.op = "end"
  /\ last.res = "ok"
  /\ ~Live(last.arg)
  /\ \E id \in DOMAIN encoders :
       /\ Len(encoders[id].cmds) = 2
       /\ encoders[id].cmds[1].cmd = "copy_buffer_to_texture"
       /\ encoders[id].cmds[2] = Command("run_pass", "RenderPass", 0)

\* C18: PopDebugGroup on a live encoder with no open debug group fails with
\* UnbalancedDebugGroup and leaves the encoder in Recording, its stream and
\* the table as they were; with an open group it succeeds, records the pop
\* and closes one group, the innermost.
C18_PopDebugGroupBalance ==
  [][last'.op = "encoder" /\ IsEncoder(last'.arg)
       /\ op_webgpu_command_encoder_pop_debug_group(last'.arg)
       => LET id == resource_table.index[last'.arg].id IN
          /\ resource_table' = resource_table
          /\ encoders'[id].status = "Recording"
          /\ IF encoders[id].debug = 0
             THEN last'.res = "UnbalancedDebugGroup" /\ encoders' = encoders
             ELSE /\ last'.res = "ok"
                  /\ encoders'[id].debug = encoders[id].debug - 1
                  /\ encoders'[id].cmds =
                       Append(encoders[id].cmds, Command("pop_debug_group", 0, 0))]_vars

\* After a push and a matching pop, a second pop has just failed with
\* UnbalancedDebugGroup; the encoder is live and recording, its stream holds
\* the push and the first pop.
C18_Witness ==
  /\ last.op = "encoder"
  /\ last.res = "UnbalancedDebugGroup"
  /\ IsEncoder(last.arg)
  /\ LET enc == encoders[resource_table.index[last.arg].id] IN
     /\ enc.status = "Recording"
     /\ enc.debug = 0
     /\ enc.cmds = <<Command("push_debug_group", 0, 0), Command("pop_debug_group", 0, 0)>>

\* Caller c holds the entry it took from handle h: its Finish is between the
\* take and the return.
HoldsTaken(c, h) == last[c].pc \in {"backend", "add"} /\ last[c].op = "finish" /\ last[c].arg = h

\* C19: with callers running concurrently and each table operation atomic,
\* at most one take of a handle obtains its entry: no two callers hold the
\* entry of one handle, a take or get of a handle made after a take of it
\* succeeded fails with InvalidHandle, and no backend encoder is wrapped by
\* two command buffers.
C19_TakeLinearizable ==
  /\ [](/\ \A c1, c2 \in Callers : \A h \in GivenHandles :
             HoldsTaken(c1, h) /\ HoldsTaken(c2, h) => c1 = c2
        /\ \A h1, h2 \in DOMAIN resource_table.index :
             /\ KindOf(h1) = "CommandBuffer" /\ KindOf(h2) = "CommandBuffer"
             /\ resource_table.index[h1].id = resource_table.index[h2].id
             => h1 = h2)
  /\ [][\A c \in Callers :
          /\ last[c].pc = "idle" /\ last'[c] # last[c]
          /\ last'[c].op \in {"finish", "marker"}
          /\ last'[c].arg \in taken
          => last'[c].pc = "idle" /\ last'[c].res = "InvalidHandle"]_vars

\* Two callers raced to finish one encoder: one holds its entry, between the
\* take and the return, the other has been answered InvalidHandle.
C19_Witness ==
  \E c1, c2 \in Callers :
    /\ c1 # c2
    /\ HoldsTaken(c1, last[c1].arg)
    /\ last[c2].pc = "idle"
    /\ last[c2].op = "finish"
    /\ last[c2].arg = last[c1].arg
    /\ last[c2].res = "InvalidHandle"

\* C20: a Finish(E) that passes the handle lookup removes E from the table
\* whether the backend then accepts or rejects the finish; from then on every
\* encoder operation and every Finish naming E fails with InvalidHandle and
\* changes nothing, and the status of a backend encoder changes only in a
\* Finish through its live handle: an encoder whose Finish was rejected is
\* never finished.
C20_FinishConsumesHandleFirst ==
  [][/\ last'.op = "finish" /\ IsEncoder(last'.arg)
          => /\ last'.arg \notin DOMAIN resource_table'.index
             /\ last'.arg \in taken'
     /\ last'.op \in {"encoder", "finish"} /\ last'.arg \in taken
          => last'.res = "InvalidHandle" /\ UNCHANGED <<resource_table, encoders>>
     /\ \/ encoders' = encoders
        \/ \A id \in DOMAIN encoders :
             encoders'[id].status # encoders[id].status
               => /\ last'.op = "finish"
                  /\ IsEncoder(last'.arg)
                  /\ resource_table.index[last'.arg].id = id]_vars

\* A call naming an encoder handle that a rejected Finish consumed has just
\* failed with InvalidHandle; the backend encoder is still recording, with a
\* pass open.
C20_Witness ==
  /\ last.op \in {"encoder", "finish"}
  /\ last.res = "InvalidHandle"
  /\ last.arg \in taken \ finished
  /\ \E id \in DOMAIN encoders : encoders[id].status = "Recording" /\ encoders[id].open > 0
  /\ \A id \in DOMAIN encoders : encoders[id].status = "Recording"

\* The step registers one new pass entry of `kind`, bound to the backend
\* encoder of handle e, under a handle never used before and returns that
\* handle; every other entry stays, and no backend encoder gains a command
\* or changes its status or its debug groups.
BeginsPass(e, kind) ==
  LET id == resource_table.index[e].id
      p == last'.rid
  IN /\ last'.res = "ok"
     /\ p = resource_table.next_rid
     /\ p \notin DOMAIN resource_table.index
     /\ p \notin taken
     /\ DOMAIN resource_table'.index = DOMAIN resource_table.index \cup {p}
     /\ resource_table'.index[p] = [kind |-> kind, id |-> id]
     /\ \A h \in DOMAIN resource_table.index : resource_table'.index[h] = resource_table.index[h]
     /\ Len(encoders') = Len(encoders)
     /\ \A j \in DOMAIN encoders :
          /\ encoders'[j].cmds = encoders[j].cmds
          /\ encoders'[j].status = encoders[j].status
          /\ encoders'[j].debug = encoders[j].debug

\* The step fails at a handle lookup and changes neither the table nor the
\* backend.
FailsAtLookup ==
  /\ last'.res = "InvalidHandle"
  /\ last'.rid = None
  /\ UNCHANGED <<resource_table, encoders>>

\* C21: BeginRenderPass and BeginComputePass check nothing but handles.  In
\* every reachable state, a begin call fails, with InvalidHandle and no effect, exactly when the
\* encoder handle or the handle of a view or resolve target fails its lookup;
\* in every other case it succeeds, registers a new pass handle bound to the
\* encoder, adds no command to any encoder's stream and reports no backend
\* error: whatever the number of passes already open from the encoder,
\* whatever the encoder has recorded, and with an empty color attachment list
\* and no depth-stencil attachment.
C21_BeginPassChecksOnlyHandles ==
  \A e \in Handles :
    /\ ~ENABLED (/\ op_webgpu_command_encoder_begin_compute_pass(e)
                 /\ ~IF IsEncoder(e) THEN BeginsPass(e, "ComputePass") ELSE FailsAtLookup)
    /\ \A c \in ArgsAfter(e, ColorAttachmentLists) :
         \A d \in After(~AttachmentFails(c, None), ArgsAfter(e, DepthStencilArgs)) :
           ~ENABLED (/\ op_webgpu_command_encoder_begin_render_pass(e, c, d)
                     /\ ~IF IsEncoder(e) /\ ~AttachmentFails(c, d)
                         THEN BeginsPass(e, "RenderPass")
                         ELSE FailsAtLookup)

\* A pass has just been begun on an encoder from which another pass was
\* already open: two pass handles bound to the one encoder are live, and the
\* encoder's stream is empty.
C21_Witness ==
  /\ last.op = "encoder"
  /\ last.res = "ok"
  /\ last.rid # None
  /\ IsEncoder(last.arg)
  /\ Live(last.rid)
  /\ KindOf(last.rid) \in PassKinds
  /\ Cardinality(OpenPasses(last.arg)) = 2
  /\ \E p \in OpenPasses(last.arg) : p < last.rid
  /\ encoders[resource_table.index[last.arg].id].cmds = <<>>
  /\ encoders[resource_table.index[last.arg].id].open = 2

====
